---------------------------- MODULE Spec2Model ----------------------------
(***************************************************************************)
(* A model of fabric's River service (src/fabric/river/service.py): the    *)
(* protocol worker thread (_river_connection_task), the UI context that    *)
(* drains the idle queue and calls run_command, and the compositor that    *)
(* sends registry, status and command-outcome events.                      *)
(***************************************************************************)
EXTENDS Integers, Sequences, FiniteSets, TLC

(***************************************************************************)
(* Bounds of the model.                                                    *)
(***************************************************************************)
\* output and seat status events in one behaviour
MaxStatusEvents == 3
\* run_command calls in one behaviour
MaxCommands == 2
\* outcome events the compositor sends in one behaviour
MaxOutcomeEvents == 2
\* globals added or removed after the compositor's initial advertisement
MaxRegistryEvents == 2

None == 0

(***************************************************************************)
(* Bitfield codec.  Python integers are unbounded; a word is kept as two   *)
(* limbs, value = hi * 2^LimbBits + lo with 0 <= lo < 2^LimbBits, so that  *)
(* bit 31 and the bits above it are representable.                         *)
(***************************************************************************)
LimbBits == 16

Word(hi, lo) == [hi |-> hi, lo |-> lo]

\* the sum of 2^(i - from) over the bit positions i >= from of S below from + LimbBits + 2
RECURSIVE SumPow(_, _)
SumPow(S, from) ==
    IF S = {} THEN 0
    ELSE LET i == CHOOSE x \in S : TRUE
         IN  (IF i >= from /\ i < from + LimbBits + 2 THEN 2 ^ (i - from) ELSE 0)
                + SumPow(S \ {i}, from)

\* the integer whose set bits are the positions in S
WordOfBits(S) ==
    Word(SumPow({i \in S : i >= LimbBits}, LimbBits), SumPow({i \in S : i < LimbBits}, 0))

\* 1 << i
Shl1(i) == WordOfBits({i})

\* a & b of two natural numbers
RECURSIVE AndNat(_, _)
AndNat(a, b) ==
    IF a = 0 \/ b = 0 THEN 0
    ELSE (a % 2) * (b % 2) + 2 * AndNat(a \div 2, b \div 2)

\* bits & mask, limb by limb
BitAnd(bits, mask) == Word(AndNat(bits.hi, mask.hi), AndNat(bits.lo, mask.lo))

\* the truth value of an integer: non-zero
Truthy(w) == w.hi # 0 \/ w.lo # 0

\* for i in range(32)
TagBits == 32

\* sorted(tags)
RECURSIVE sorted(_)
sorted(S) ==
    IF S = {} THEN <<>>
    ELSE LET m == CHOOSE x \in S : \A y \in S : x <= y
         IN  <<m>> \o sorted(S \ {m})

\* a payload is a single integer or an iterable of integers
IntPayload(w) == [iter |-> FALSE, words |-> <<w>>]
SeqPayload(ws) == [iter |-> TRUE, words |-> ws]

\* if not hasattr(bitfields, "__iter__"): bitfields = [bitfields]
EnsureIterable(bitfields) ==
    IF ~bitfields.iter THEN <<bitfields.words[1]>> ELSE bitfields.words

\* the inner loop over range(31)
TagsOfWord_Range31(bits) == {i \in 0..(TagBits - 2) : Truthy(BitAnd(bits, Shl1(i)))}

\* the inner loop: tags.add(i) for the i of range(32) with bits & (1 << i)
TagsOfWord(bits) == {i \in 0..(TagBits - 1) : Truthy(BitAnd(bits, Shl1(i)))}

_decode_bitfields(bitfields) ==
    LET ws == EnsureIterable(bitfields)
        tags == UNION {TagsOfWord(ws[k]) : k \in 1..Len(ws)}
    IN  sorted(tags)

(***************************************************************************)
(* The compositor's globals: registry name -> interface.  Registry names   *)
(* are unique and never reused, so a name denotes one global, and one      *)
(* OutputInfo object, for the whole session.                               *)
(***************************************************************************)
Globals ==
    <<"zriver_status_manager_v1", "zriver_control_v1", "wl_seat",
      "wl_output", "wl_output", "wl_compositor">>

Names == DOMAIN Globals

\* tag payloads the compositor sends: 0b101 as one integer, [0b1, 0b10] as an array
TagPayloads ==
    {IntPayload(WordOfBits({0, 2})), SeqPayload(<<WordOfBits({0}), WordOfBits({1})>>)}

\* titles the seat status reports
Titles == {"foot", "vim"}

\* an optional string: None is <<>>, the string s is <<s>>
Some(s) == <<s>>
NoneVal == <<>>

\* outcome events of a completion object: success(output), failure(failure_message)
Outcomes ==
    {[ev |-> "success", text |-> "ok"],
     [ev |-> "failure", text |-> "Unknown command"]}

\* run_command arguments: a string or an integer
StrArg(s) == [int |-> FALSE, s |-> s, n |-> 0]
IntArg(n) == [int |-> TRUE, s |-> "", n |-> n]

Digits == <<"0", "1", "2", "3", "4", "5", "6", "7", "8", "9">>

\* str(n) of a non-negative integer: its decimal digits
RECURSIVE Decimal(_)
Decimal(n) ==
    IF n < 10 THEN Digits[n + 1] ELSE Decimal(n \div 10) \o Digits[(n % 10) + 1]

\* str(arg)
str(arg) == IF arg.int THEN Decimal(arg.n) ELSE arg.s

\* the calls the application makes
Calls ==
    {[command |-> "send-layout-cmd", args |-> <<StrArg("rivertile"), IntArg(16)>>]}

VARIABLES
    pc,                  \* the worker's position in _river_connection_task
    term,                \* why the worker left the task ("" while it runs)
    roundtrips,          \* display.roundtrip() calls completed
    state,               \* the worker's state dict
    info,                \* the OutputInfo objects, by name
    compositor,          \* the globals the compositor has when the worker connects
    budget,              \* events the environment may still produce, by kind
    advertised,          \* registry names the compositor has advertised
    wire,                \* status and outcome events delivered to the worker, in order
    ready,               \* self._ready
    active_window_title, \* self._active_window_title
    outputs,             \* self.outputs (its keys; the objects are info's)
    river_status_mgr,    \* self.river_status_mgr
    river_control,       \* self.river_control
    seat,                \* self.seat
    seat_status,         \* self.seat_status
    has_display,         \* hasattr(self, "_display")
    idle,                \* the idle queue: calls deferred to the UI context
    emitted,             \* signals emitted in the UI context, in order
    mpc,                 \* the UI context's position in run_command
    cmds,                \* one record per run_command call
    control_requests,    \* requests issued on the control interface, in order
    codec_in,            \* the argument of a _decode_bitfields call made on its own
    codec_out,           \* what that call returned
    codec_pc             \* "call" before that call, "return" after it, "off" without one

worker_vars == <<pc, term, roundtrips, state, info>>
service_vars ==
    <<ready, active_window_title, outputs, river_status_mgr, river_control,
      seat, seat_status, has_display>>
ui_vars == <<idle, emitted, mpc, cmds, control_requests>>
env_vars == <<compositor, budget, advertised, wire>>
codec_vars == <<codec_in, codec_out, codec_pc>>
session_vars ==
    <<pc, term, roundtrips, state, info, compositor, budget, advertised, wire, ready,
      active_window_title, outputs, river_status_mgr, river_control, seat,
      seat_status, has_display, idle, emitted, mpc, cmds, control_requests>>
vars == <<session_vars, codec_vars>>

\* OutputInfo(name=name, output=output): status None, the three tag lists empty
OutputInfo(name, output) ==
    [name |-> name, output |-> output, status |-> None,
     tags_view |-> <<>>, tags_focused |-> <<>>, tags_urgent |-> <<>>]

\* RiverEvent(name, data, output_id)
RiverEvent(name, data, output_id) ==
    [name |-> name, data |-> data, output_id |-> output_id]

\* idle_add(callable): the call is queued for the UI context
Deferred(fn, id, data) == [fn |-> fn, id |-> id, data |-> data]

idle_add(call) == idle' = Append(idle, call)

Budget(status, commands, outcomes, registry) ==
    [status |-> status, commands |-> commands, outcomes |-> outcomes,
     registry |-> registry]

\* the sessions explored: the compositor's initial globals and the events
\* the environment produces afterwards
Scenarios ==
    \* one output and a seat: a run of status events
    {[compositor |-> {1, 3, 4}, budget |-> Budget(MaxStatusEvents, 0, 0, 0)]}
    \* two outputs
    \cup {[compositor |-> {1, 3, 4, 5},
            budget |-> Budget(MaxStatusEvents - 1, 0, 0, 0)]}
    \* every combination of status manager, control interface and seat: commands
    \cup {[compositor |-> G,
            budget |-> Budget(0, MaxCommands, MaxOutcomeEvents, 0)] :
                G \in SUBSET {1, 2, 3}}
    \* outputs and other globals come and go
    \cup {[compositor |-> {1, 4},
            budget |-> Budget(1, 0, 0, MaxRegistryEvents)]}
    \* everything at once
    \cup {[compositor |-> {1, 2, 3, 4}, budget |-> Budget(1, 1, 1, 1)]}

\* River.__init__
Construct ==
    /\ pc = "start"
    /\ term = ""
    /\ roundtrips = 0
    /\ state =
         [outputs |-> {}, river_status_mgr |-> None, river_control |-> None,
          seat |-> None, seat_status |-> None]
    /\ info = [n \in {} |-> None]
    /\ advertised = {}
    /\ wire = <<>>
    /\ ready = FALSE
    /\ active_window_title = ""
    /\ outputs = {}
    /\ river_status_mgr = None
    /\ river_control = None
    /\ seat = None
    /\ seat_status = None
    /\ has_display = FALSE
    /\ idle = <<>>
    /\ emitted = <<>>
    /\ mpc = "idle"
    /\ cmds = <<>>
    /\ control_requests = <<>>

Init ==
    /\ \E s \in Scenarios : compositor = s.compositor /\ budget = s.budget
    /\ Construct
    /\ codec_in = IntPayload(WordOfBits({}))
    /\ codec_out = <<>>
    /\ codec_pc = "off"

(***************************************************************************)
(* The protocol worker: _river_connection_task.                            *)
(***************************************************************************)

\* the worker is inside display.roundtrip() or display.dispatch()
Receiving == {"roundtrip1", "roundtrip2", "dispatch"}

Restrict(f, S) == [n \in S |-> f[n]]

\* Display(), connect(), get_registry(), the state dict, the registry dispatchers
Connect ==
    /\ pc = "start"
    /\ pc' = "roundtrip1"
    /\ UNCHANGED <<term, roundtrips, state, info>>
    /\ UNCHANGED env_vars
    /\ UNCHANGED service_vars
    /\ UNCHANGED ui_vars
    /\ UNCHANGED codec_vars

\* an exception inside the try block: logged, the worker leaves the task
ConnectionError ==
    /\ pc \in {"start"} \cup Receiving
    /\ pc' = "done"
    /\ term' = "exception"
    /\ UNCHANGED <<roundtrips, state, info>>
    /\ UNCHANGED env_vars
    /\ UNCHANGED service_vars
    /\ UNCHANGED ui_vars
    /\ UNCHANGED codec_vars

\* handle_global taking every wl_ interface it does not know for an output
handle_global_AnyWl(name, iface) ==
    IF iface = "zriver_status_manager_v1"
    THEN /\ state' = [state EXCEPT !.river_status_mgr = name]
         /\ UNCHANGED info
    ELSE IF iface = "zriver_control_v1"
    THEN /\ state' = [state EXCEPT !.river_control = name]
         /\ UNCHANGED info
    ELSE IF iface = "wl_seat"
    THEN /\ state' = [state EXCEPT !.seat = name]
         /\ UNCHANGED info
    ELSE /\ state' = [state EXCEPT !.outputs = @ \cup {name}]
         /\ info' = (name :> OutputInfo(name, name)) @@ info

handle_global(name, iface) ==
    IF iface = "zriver_status_manager_v1"
    THEN /\ state' = [state EXCEPT !.river_status_mgr = name]
         /\ UNCHANGED info
    ELSE IF iface = "zriver_control_v1"
    THEN /\ state' = [state EXCEPT !.river_control = name]
         /\ UNCHANGED info
    ELSE IF iface = "wl_output"
    THEN /\ state' = [state EXCEPT !.outputs = @ \cup {name}]
         /\ info' = (name :> OutputInfo(name, name)) @@ info
    ELSE IF iface = "wl_seat"
    THEN /\ state' = [state EXCEPT !.seat = name]
         /\ UNCHANGED info
    ELSE UNCHANGED <<state, info>>

\* the smallest element of a non-empty set of names
Min(S) == CHOOSE x \in S : \A y \in S : x <= y

\* the registry advertises a global, each name once: the compositor's initial
\* globals in name order during the first roundtrip, another global at any
\* later time
GlobalAdded(name) ==
    /\ pc \in Receiving
    /\ name \notin advertised
    /\ IF name \in compositor
       THEN /\ pc = "roundtrip1"
            /\ name = Min(compositor \ advertised)
            /\ UNCHANGED budget
       ELSE /\ budget.registry > 0
            /\ budget' = [budget EXCEPT !.registry = @ - 1]
    /\ advertised' = advertised \cup {name}
    /\ handle_global(name, Globals[name])
    /\ UNCHANGED <<pc, term, roundtrips, compositor, wire>>
    /\ UNCHANGED service_vars
    /\ UNCHANGED ui_vars
    /\ UNCHANGED codec_vars

\* del state["outputs"][name]: an OutputInfo that self.outputs does not hold
\* either is no longer referenced
handle_global_remove(name) ==
    IF name \in state.outputs
    THEN /\ state' = [state EXCEPT !.outputs = @ \ {name}]
         /\ info' = Restrict(info, (state.outputs \ {name}) \cup outputs)
         /\ idle_add(Deferred("output_removed", None, <<name>>))
    ELSE UNCHANGED <<state, info, idle>>

\* the registry reports a global removed
GlobalRemoved(name) ==
    /\ pc \in Receiving
    /\ name \in advertised
    /\ budget.registry > 0
    /\ budget' = [budget EXCEPT !.registry = @ - 1]
    /\ handle_global_remove(name)
    /\ UNCHANGED <<pc, term, roundtrips, compositor, advertised, wire>>
    /\ UNCHANGED service_vars
    /\ UNCHANGED <<emitted, mpc, cmds, control_requests>>
    /\ UNCHANGED codec_vars

\* a first roundtrip after which a missing control interface also ends the task
Discover_ControlRequired ==
    /\ pc = "roundtrip1"
    /\ compositor \subseteq advertised
    /\ roundtrips' = roundtrips + 1
    /\ IF state.river_status_mgr = None \/ state.river_control = None
       THEN pc' = "done" /\ term' = "no_status_mgr"
       ELSE pc' = "wiring" /\ UNCHANGED term
    /\ UNCHANGED <<state, info>>
    /\ UNCHANGED env_vars
    /\ UNCHANGED service_vars
    /\ UNCHANGED ui_vars
    /\ UNCHANGED codec_vars

\* the first roundtrip returns; without a status manager the task returns
Discover ==
    /\ pc = "roundtrip1"
    /\ compositor \subseteq advertised
    /\ roundtrips' = roundtrips + 1
    /\ IF state.river_status_mgr = None
       THEN pc' = "done" /\ term' = "no_status_mgr"
       ELSE pc' = "wiring" /\ UNCHANGED term
    /\ UNCHANGED <<state, info>>
    /\ UNCHANGED env_vars
    /\ UNCHANGED service_vars
    /\ UNCHANGED ui_vars
    /\ UNCHANGED codec_vars

\* listener wiring that already marks the service ready
WireListeners_ReadyEarly ==
    /\ pc = "wiring"
    /\ state' = [state EXCEPT !.seat_status =
                    IF state.seat # None THEN state.seat ELSE @]
    /\ info' = [n \in DOMAIN info |->
                    IF n \in state.outputs
                    THEN [info[n] EXCEPT !.status = info[n].output]
                    ELSE info[n]]
    /\ idle_add(Deferred("_set_ready", None, <<>>))
    /\ pc' = "roundtrip2"
    /\ UNCHANGED <<term, roundtrips>>
    /\ UNCHANGED env_vars
    /\ UNCHANGED service_vars
    /\ UNCHANGED <<emitted, mpc, cmds, control_requests>>
    /\ UNCHANGED codec_vars

\* the seat status (if a seat is bound) and one output status per known output
WireListeners ==
    /\ pc = "wiring"
    /\ state' = [state EXCEPT !.seat_status =
                    IF state.seat # None THEN state.seat ELSE @]
    /\ info' = [n \in DOMAIN info |->
                    IF n \in state.outputs
                    THEN [info[n] EXCEPT !.status = info[n].output]
                    ELSE info[n]]
    /\ pc' = "roundtrip2"
    /\ UNCHANGED <<term, roundtrips>>
    /\ UNCHANGED env_vars
    /\ UNCHANGED service_vars
    /\ UNCHANGED ui_vars
    /\ UNCHANGED codec_vars

\* a focused_view handler that reports a title only when it differs from the stored one
focused_view_handler_OnChange(title) ==
    /\ active_window_title' = title
    /\ IF title = active_window_title
       THEN UNCHANGED idle
       ELSE idle_add(Deferred("_emit_active_window", None, <<title>>))

focused_view_handler(title) ==
    /\ active_window_title' = title
    /\ idle_add(Deferred("_emit_active_window", None, <<title>>))

\* a view_tags handler that skips the emission when the tags did not change
make_view_tags_handler_Coalescing(output_id, tags) ==
    LET decoded == _decode_bitfields(tags) IN
    IF output_id \in state.outputs
    THEN /\ info' = [info EXCEPT ![output_id].tags_view = decoded]
         /\ IF decoded = info[output_id].tags_view
            THEN UNCHANGED idle
            ELSE idle_add(Deferred("_emit_view_tags", output_id, decoded))
    ELSE UNCHANGED <<info, idle>>

\* the handlers of one output status; state["outputs"][output_id] raises
\* KeyError when the record is gone, before anything is stored or queued
make_view_tags_handler(output_id, tags) ==
    LET decoded == _decode_bitfields(tags) IN
    IF output_id \in state.outputs
    THEN /\ info' = [info EXCEPT ![output_id].tags_view = decoded]
         /\ idle_add(Deferred("_emit_view_tags", output_id, decoded))
    ELSE UNCHANGED <<info, idle>>

\* a focused_tags handler that stores the tags as the view tags too
make_focused_tags_handler_AlsoView(output_id, tags) ==
    LET decoded == _decode_bitfields(tags) IN
    IF output_id \in state.outputs
    THEN /\ info' = [info EXCEPT ![output_id].tags_focused = decoded,
                                 ![output_id].tags_view = decoded]
         /\ idle_add(Deferred("_emit_focused_tags", output_id, decoded))
    ELSE UNCHANGED <<info, idle>>

make_focused_tags_handler(output_id, tags) ==
    LET decoded == _decode_bitfields(tags) IN
    IF output_id \in state.outputs
    THEN /\ info' = [info EXCEPT ![output_id].tags_focused = decoded]
         /\ idle_add(Deferred("_emit_focused_tags", output_id, decoded))
    ELSE UNCHANGED <<info, idle>>

make_urgent_tags_handler(output_id, tags) ==
    LET decoded == _decode_bitfields(tags) IN
    IF output_id \in state.outputs
    THEN /\ info' = [info EXCEPT ![output_id].tags_urgent = decoded]
         /\ idle_add(Deferred("_emit_urgent_tags", output_id, decoded))
    ELSE UNCHANGED <<info, idle>>

TagKinds == {"view_tags", "focused_tags", "urgent_tags"}

NoTags == IntPayload(WordOfBits({}))

WireEvent(ev, id, tags, text) ==
    [ev |-> ev, id |-> id, tags |-> tags, text |-> text]

\* output ids whose status object exists and is still referenced
Listening == {n \in DOMAIN info : info[n].status # None}

\* an output status event whose KeyError ends the task
TagsEvent_KeyErrorFatal(kind, output_id, tags) ==
    /\ pc \in {"roundtrip2", "dispatch"}
    /\ output_id \in Listening
    /\ budget.status > 0
    /\ budget' = [budget EXCEPT !.status = @ - 1]
    /\ wire' = Append(wire, WireEvent(kind, output_id, tags, ""))
    /\ IF kind = "view_tags" THEN make_view_tags_handler(output_id, tags)
       ELSE IF kind = "focused_tags" THEN make_focused_tags_handler(output_id, tags)
       ELSE make_urgent_tags_handler(output_id, tags)
    /\ IF output_id \in state.outputs
       THEN UNCHANGED <<pc, term>>
       ELSE pc' = "done" /\ term' = "exception"
    /\ UNCHANGED <<roundtrips, state, compositor, advertised>>
    /\ UNCHANGED service_vars
    /\ UNCHANGED <<emitted, mpc, cmds, control_requests>>
    /\ UNCHANGED codec_vars

\* an output status event reaches the worker
TagsEvent(kind, output_id, tags) ==
    /\ pc \in {"roundtrip2", "dispatch"}
    /\ output_id \in Listening
    /\ budget.status > 0
    /\ budget' = [budget EXCEPT !.status = @ - 1]
    /\ wire' = Append(wire, WireEvent(kind, output_id, tags, ""))
    /\ IF kind = "view_tags" THEN make_view_tags_handler(output_id, tags)
       ELSE IF kind = "focused_tags" THEN make_focused_tags_handler(output_id, tags)
       ELSE make_urgent_tags_handler(output_id, tags)
    /\ UNCHANGED <<pc, term, roundtrips, state, compositor, advertised>>
    /\ UNCHANGED service_vars
    /\ UNCHANGED <<emitted, mpc, cmds, control_requests>>
    /\ UNCHANGED codec_vars

\* a seat status event reaches the worker
FocusedViewEvent(title) ==
    /\ pc \in {"roundtrip2", "dispatch"}
    /\ state.seat_status # None
    /\ budget.status > 0
    /\ budget' = [budget EXCEPT !.status = @ - 1]
    /\ wire' = Append(wire, WireEvent("focused_view", None, NoTags, title))
    /\ focused_view_handler(title)
    /\ UNCHANGED <<pc, term, roundtrips, state, info, compositor, advertised>>
    /\ UNCHANGED <<ready, outputs, river_status_mgr, river_control, seat,
                   seat_status, has_display>>
    /\ UNCHANGED <<emitted, mpc, cmds, control_requests>>
    /\ UNCHANGED codec_vars

\* the second roundtrip returns
InitialFetch ==
    /\ pc = "roundtrip2"
    /\ roundtrips' = roundtrips + 1
    /\ pc' = "publish_outputs"
    /\ UNCHANGED <<term, state, info>>
    /\ UNCHANGED env_vars
    /\ UNCHANGED service_vars
    /\ UNCHANGED ui_vars
    /\ UNCHANGED codec_vars

\* self.outputs.update(state["outputs"]): the same OutputInfo objects
PublishOutputs ==
    /\ pc = "publish_outputs"
    /\ outputs' = outputs \cup state.outputs
    /\ pc' = "publish_status_mgr"
    /\ UNCHANGED <<term, roundtrips, state, info>>
    /\ UNCHANGED env_vars
    /\ UNCHANGED <<ready, active_window_title, river_status_mgr, river_control,
                   seat, seat_status, has_display>>
    /\ UNCHANGED ui_vars
    /\ UNCHANGED codec_vars

PublishStatusMgr ==
    /\ pc = "publish_status_mgr"
    /\ river_status_mgr' = state.river_status_mgr
    /\ pc' = "publish_control"
    /\ UNCHANGED <<term, roundtrips, state, info>>
    /\ UNCHANGED env_vars
    /\ UNCHANGED <<ready, active_window_title, outputs, river_control, seat,
                   seat_status, has_display>>
    /\ UNCHANGED ui_vars
    /\ UNCHANGED codec_vars

PublishControl ==
    /\ pc = "publish_control"
    /\ river_control' = state.river_control
    /\ pc' = "publish_seat"
    /\ UNCHANGED <<term, roundtrips, state, info>>
    /\ UNCHANGED env_vars
    /\ UNCHANGED <<ready, active_window_title, outputs, river_status_mgr, seat,
                   seat_status, has_display>>
    /\ UNCHANGED ui_vars
    /\ UNCHANGED codec_vars

PublishSeat ==
    /\ pc = "publish_seat"
    /\ seat' = state.seat
    /\ pc' = "publish_seat_status"
    /\ UNCHANGED <<term, roundtrips, state, info>>
    /\ UNCHANGED env_vars
    /\ UNCHANGED <<ready, active_window_title, outputs, river_status_mgr,
                   river_control, seat_status, has_display>>
    /\ UNCHANGED ui_vars
    /\ UNCHANGED codec_vars

PublishSeatStatus ==
    /\ pc = "publish_seat_status"
    /\ seat_status' = state.seat_status
    /\ pc' = "publish_display"
    /\ UNCHANGED <<term, roundtrips, state, info>>
    /\ UNCHANGED env_vars
    /\ UNCHANGED <<ready, active_window_title, outputs, river_status_mgr,
                   river_control, seat, has_display>>
    /\ UNCHANGED ui_vars
    /\ UNCHANGED codec_vars

PublishDisplay ==
    /\ pc = "publish_display"
    /\ has_display' = TRUE
    /\ pc' = "mark_ready"
    /\ UNCHANGED <<term, roundtrips, state, info>>
    /\ UNCHANGED env_vars
    /\ UNCHANGED <<ready, active_window_title, outputs, river_status_mgr,
                   river_control, seat, seat_status>>
    /\ UNCHANGED ui_vars
    /\ UNCHANGED codec_vars

\* idle_add(self._set_ready), then the main event loop is entered
MarkReady ==
    /\ pc = "mark_ready"
    /\ idle_add(Deferred("_set_ready", None, <<>>))
    /\ pc' = "loop"
    /\ UNCHANGED <<term, roundtrips, state, info>>
    /\ UNCHANGED env_vars
    /\ UNCHANGED service_vars
    /\ UNCHANGED <<emitted, mpc, cmds, control_requests>>
    /\ UNCHANGED codec_vars

\* display.dispatch(block=True) is entered: it flushes the requests written
\* so far, then waits for events
DispatchEnter ==
    /\ pc = "loop"
    /\ pc' = "dispatch"
    /\ cmds' = [c \in DOMAIN cmds |->
                    IF cmds[c].path = "control"
                    THEN [cmds[c] EXCEPT !.flushed = TRUE] ELSE cmds[c]]
    /\ UNCHANGED <<term, roundtrips, state, info>>
    /\ UNCHANGED env_vars
    /\ UNCHANGED service_vars
    /\ UNCHANGED <<idle, emitted, mpc, control_requests>>
    /\ UNCHANGED codec_vars

\* display.dispatch returns; time.sleep(0.01)
DispatchReturn ==
    /\ pc = "dispatch"
    /\ pc' = "loop"
    /\ UNCHANGED <<term, roundtrips, state, info>>
    /\ UNCHANGED env_vars
    /\ UNCHANGED service_vars
    /\ UNCHANGED ui_vars
    /\ UNCHANGED codec_vars

(***************************************************************************)
(* run_command and its completion object.                                  *)
(***************************************************************************)

\* result = {"stdout": None, "stderr": None, "success": None}
ResultHolder == [stdout |-> NoneVal, stderr |-> NoneVal, success |-> NoneVal]

Ret(t, v) == [t |-> t, v |-> v]

handle_success(c, output) ==
    /\ cmds' = [cmds EXCEPT ![c].result =
                    [@ EXCEPT !.stdout = Some(output), !.success = Some(TRUE)]]
    /\ IF cmds[c].callback
       THEN idle_add(Deferred("callback", c, <<TRUE, Some(output), NoneVal>>))
       ELSE UNCHANGED idle

handle_failure(c, failure_message) ==
    /\ cmds' = [cmds EXCEPT ![c].result =
                    [@ EXCEPT !.stderr = Some(failure_message), !.success = Some(FALSE)]]
    /\ IF cmds[c].callback
       THEN idle_add(Deferred("callback", c, <<FALSE, NoneVal, Some(failure_message)>>))
       ELSE UNCHANGED idle

\* outcome events delivered so far on the completion object of call c
OutcomeEvents(c) ==
    {i \in DOMAIN wire : wire[i].ev \in {"success", "failure"} /\ wire[i].id = c}

\* the compositor's answer to a request it has received reaches the worker; an
\* event whose dispatcher slot is still empty is dropped
OutcomeEvent(c, o) ==
    /\ pc = "dispatch"
    /\ c \in DOMAIN cmds
    /\ cmds[c].path = "control"
    /\ cmds[c].flushed
    /\ budget.outcomes > 0
    /\ budget' = [budget EXCEPT !.outcomes = @ - 1]
    /\ wire' = Append(wire, WireEvent(o.ev, c, NoTags, o.text))
    /\ IF o.ev = "success" /\ cmds[c].on_success THEN handle_success(c, o.text)
       ELSE IF o.ev = "failure" /\ cmds[c].on_failure THEN handle_failure(c, o.text)
       ELSE UNCHANGED <<cmds, idle>>
    /\ UNCHANGED <<pc, term, roundtrips, state, info, compositor, advertised>>
    /\ UNCHANGED service_vars
    /\ UNCHANGED <<emitted, mpc, control_requests>>
    /\ UNCHANGED codec_vars

\* subprocess.run(["riverctl", command, ...]): its stripped stdout, None when
\* riverctl exits non-zero, FileNotFoundError when there is no riverctl
FallbackResults ==
    {Ret("str", "ok"), Ret("NoneType", ""), Ret("raise", "FileNotFoundError")}

Request(req, arg) == [req |-> req, arg |-> arg]

\* the arguments added last first, after the command name
AddArguments_Reversed(call) ==
    <<Request("add_argument", call.command)>>
        \o [k \in 1..Len(call.args) |->
                Request("add_argument", str(call.args[Len(call.args) + 1 - k]))]

\* river_control.add_argument(command), add_argument(str(arg)) for each arg, in order
AddArguments(call) ==
    <<Request("add_argument", call.command)>>
        \o [k \in 1..Len(call.args) |-> Request("add_argument", str(call.args[k]))]

Command(call, callback, path, ret) ==
    [command |-> call.command, args |-> call.args, callback |-> callback,
     path |-> path, ret |-> ret, flushed |-> FALSE,
     on_success |-> FALSE, on_failure |-> FALSE,
     result |-> ResultHolder]

_run_command_fallback(call, callback, r) ==
    /\ cmds' = Append(cmds, Command(call, callback, "fallback", r))
    /\ UNCHANGED <<control_requests, mpc>>

\* run_command falling back only when both the control handle and the seat are missing
run_command_BothMissing(call, callback) ==
    IF river_control = None /\ seat = None
    THEN \E r \in FallbackResults : _run_command_fallback(call, callback, r)
    ELSE /\ control_requests' =
                control_requests \o AddArguments(call)
                    \o <<Request("run_command", Decimal(seat))>>
         /\ cmds' = Append(cmds, Command(call, callback, "control", Ret("running", "")))
         /\ mpc' = "attach_success"

\* run_command up to the request: the check, the arguments, run_command(seat)
run_command(call, callback) ==
    IF river_control = None \/ seat = None
    THEN \E r \in FallbackResults : _run_command_fallback(call, callback, r)
    ELSE /\ control_requests' =
                control_requests \o AddArguments(call)
                    \o <<Request("run_command", Decimal(seat))>>
         /\ cmds' = Append(cmds, Command(call, callback, "control", Ret("running", "")))
         /\ mpc' = "attach_success"

RunCommand(call, callback) ==
    /\ mpc = "idle"
    /\ budget.commands > 0
    /\ budget' = [budget EXCEPT !.commands = @ - 1]
    /\ run_command(call, callback)
    /\ UNCHANGED worker_vars
    /\ UNCHANGED <<compositor, advertised, wire>>
    /\ UNCHANGED service_vars
    /\ UNCHANGED <<idle, emitted>>
    /\ UNCHANGED codec_vars

\* command_callback.dispatcher["success"] = handle_success
AttachSuccess ==
    /\ mpc = "attach_success"
    /\ cmds' = [cmds EXCEPT ![Len(cmds)].on_success = TRUE]
    /\ mpc' = "attach_failure"
    /\ UNCHANGED worker_vars
    /\ UNCHANGED env_vars
    /\ UNCHANGED service_vars
    /\ UNCHANGED <<idle, emitted, control_requests>>
    /\ UNCHANGED codec_vars

\* command_callback.dispatcher["failure"] = handle_failure
AttachFailure ==
    /\ mpc = "attach_failure"
    /\ cmds' = [cmds EXCEPT ![Len(cmds)].on_failure = TRUE]
    /\ mpc' = "flush"
    /\ UNCHANGED worker_vars
    /\ UNCHANGED env_vars
    /\ UNCHANGED service_vars
    /\ UNCHANGED <<idle, emitted, control_requests>>
    /\ UNCHANGED codec_vars

\* if hasattr(self, "_display"): self._display.flush(); return True
FlushAndReturn ==
    /\ mpc = "flush"
    /\ cmds' = [c \in DOMAIN cmds |->
                    IF c = Len(cmds)
                    THEN [cmds[c] EXCEPT !.flushed = @ \/ has_display,
                                         !.ret = Ret("bool", "True")]
                    ELSE IF cmds[c].path = "control"
                    THEN [cmds[c] EXCEPT !.flushed = @ \/ has_display]
                    ELSE cmds[c]]
    /\ mpc' = "idle"
    /\ UNCHANGED worker_vars
    /\ UNCHANGED env_vars
    /\ UNCHANGED service_vars
    /\ UNCHANGED <<idle, emitted, control_requests>>
    /\ UNCHANGED codec_vars

(***************************************************************************)
(* The UI context runs the deferred calls, one at a time, in queue order.  *)
(***************************************************************************)

Emission(signal, event) == [signal |-> signal, event |-> event]

NoEvent == RiverEvent("", <<>>, None)

_set_ready ==
    /\ ready' = TRUE
    /\ emitted' = Append(emitted, Emission("ready-signal", NoEvent))

\* the two emits of _emit_view_tags, _emit_focused_tags, _emit_urgent_tags
EmitTags(name, output_id, tags) ==
    emitted' = emitted \o
        <<Emission("event::" \o name, RiverEvent(name, tags, output_id)),
          Emission("event::" \o name \o "::" \o Decimal(output_id),
                   RiverEvent("", tags, None))>>

_emit_view_tags(output_id, tags) == EmitTags("view_tags", output_id, tags)

_emit_focused_tags(output_id, tags) == EmitTags("focused_tags", output_id, tags)

_emit_urgent_tags(output_id, tags) == EmitTags("urgent_tags", output_id, tags)

_emit_active_window(title) ==
    emitted' = emitted \o
        <<Emission("event::active_window", RiverEvent("active_window", <<title>>, None)),
          Emission("notify::active-window", NoEvent)>>

\* lambda: self.emit("event::output_removed", RiverEvent("output_removed", [name]))
EmitOutputRemoved(data) ==
    emitted' = Append(emitted, Emission("event::output_removed",
                                        RiverEvent("output_removed", data, None)))

\* lambda: callback(True, output, None) or callback(False, None, failure_message)
InvokeCallback(c, args) ==
    emitted' = Append(emitted, Emission("callback", RiverEvent("callback", args, c)))

IdleRun ==
    /\ mpc = "idle"
    /\ idle # <<>>
    /\ idle' = Tail(idle)
    /\ LET call == Head(idle) IN
       IF call.fn = "_set_ready" THEN _set_ready
       ELSE /\ UNCHANGED ready
            /\ IF call.fn = "_emit_view_tags" THEN _emit_view_tags(call.id, call.data)
               ELSE IF call.fn = "_emit_focused_tags" THEN _emit_focused_tags(call.id, call.data)
               ELSE IF call.fn = "_emit_urgent_tags" THEN _emit_urgent_tags(call.id, call.data)
               ELSE IF call.fn = "_emit_active_window" THEN _emit_active_window(call.data[1])
               ELSE IF call.fn = "output_removed" THEN EmitOutputRemoved(call.data)
               ELSE InvokeCallback(call.id, call.data)
    /\ UNCHANGED worker_vars
    /\ UNCHANGED env_vars
    /\ UNCHANGED <<active_window_title, outputs, river_status_mgr, river_control,
                   seat, seat_status, has_display>>
    /\ UNCHANGED <<mpc, cmds, control_requests>>
    /\ UNCHANGED codec_vars

Next ==
    \/ Connect
    \/ ConnectionError
    \/ \E name \in Names : GlobalAdded(name)
    \/ \E name \in Names : GlobalRemoved(name)
    \/ Discover
    \/ WireListeners
    \/ \E kind \in TagKinds, output_id \in Names, tags \in TagPayloads :
            TagsEvent(kind, output_id, tags)
    \/ \E title \in Titles : FocusedViewEvent(title)
    \/ InitialFetch
    \/ PublishOutputs
    \/ PublishStatusMgr
    \/ PublishControl
    \/ PublishSeat
    \/ PublishSeatStatus
    \/ PublishDisplay
    \/ MarkReady
    \/ DispatchEnter
    \/ DispatchReturn
    \/ \E c \in 1..MaxCommands, o \in Outcomes : OutcomeEvent(c, o)
    \/ \E call \in Calls, callback \in BOOLEAN : RunCommand(call, callback)
    \/ AttachSuccess
    \/ AttachFailure
    \/ FlushAndReturn
    \/ IdleRun

Spec == Init /\ [][Next]_vars

(***************************************************************************)
(* _decode_bitfields on its own: one call on an input drawn from           *)
(* DecodeInputs.                                                           *)
(***************************************************************************)

\* sets of bit positions: none, low bits, both limbs, bit 31, bits above 31
BitSets ==
    {{}, {0}, {1}, {0, 1, 3}, {15, 16}, {31}, {32}, {0, 31, 33}}

DecodeWords == {WordOfBits(S) : S \in BitSets}

\* a single integer, or a sequence of at most two integers
DecodeInputs ==
    {IntPayload(w) : w \in DecodeWords}
        \cup {SeqPayload(<<>>)}
        \cup {SeqPayload(<<w>>) : w \in DecodeWords}
        \cup {SeqPayload(<<v, w>>) : v \in DecodeWords, w \in DecodeWords}

DecodeInit ==
    /\ codec_in \in DecodeInputs
    /\ codec_out = <<>>
    /\ codec_pc = "call"
    /\ compositor = {}
    /\ budget = Budget(0, 0, 0, 0)
    /\ Construct

Decode ==
    /\ codec_pc = "call"
    /\ codec_out' = _decode_bitfields(codec_in)
    /\ codec_pc' = "return"
    /\ UNCHANGED codec_in
    /\ UNCHANGED session_vars

SpecDecode == DecodeInit /\ [][Decode]_vars

(***************************************************************************)
(* Properties.                                                             *)
(***************************************************************************)

\* the deferred continuation calls of call c still in the idle queue
QueuedCallbacks(c) ==
    {i \in DOMAIN idle : idle[i].fn = "callback" /\ idle[i].id = c}

\* the continuation calls of call c made so far, in order
InvokedCallbacks(c) ==
    SelectSeq(emitted, LAMBDA e : e.signal = "callback" /\ e.event.output_id = c)

\* continuation calls of call c, made or queued
Continuations(c) == Cardinality(QueuedCallbacks(c)) + Len(InvokedCallbacks(c))

Resolved(c) == cmds[c].result.success # NoneVal

\* C1: once the result holder of a call has been resolved by an outcome event,
\* no later step changes the latched result or adds a continuation call for it.
C1_ResolveOnce ==
    [][\A c \in DOMAIN cmds :
            Resolved(c) =>
                /\ cmds'[c].result = cmds[c].result
                /\ Continuations(c)' = Continuations(c)]_vars

\* the continuation arguments an outcome event calls for
ExpectedArgs(e) ==
    IF e.ev = "success" THEN <<TRUE, Some(e.text), NoneVal>>
    ELSE <<FALSE, NoneVal, Some(e.text)>>

\* C2: a call on the control path with a continuation, for which exactly one
\* outcome event has been delivered, which has returned and has no continuation
\* call left in the idle queue, has had its continuation called exactly once,
\* with the arguments of that event.
C2_ContinuationOnce ==
    \A c \in DOMAIN cmds :
        ( /\ cmds[c].path = "control"
          /\ cmds[c].callback
          /\ cmds[c].ret.t = "bool"
          /\ Cardinality(OutcomeEvents(c)) = 1
          /\ QueuedCallbacks(c) = {} )
        => /\ Len(InvokedCallbacks(c)) = 1
           /\ InvokedCallbacks(c)[1].event.data
                = ExpectedArgs(wire[CHOOSE i \in OutcomeEvents(c) : TRUE])

\* the calls that took the control path
ControlCalls == {c \in DOMAIN cmds : cmds[c].path = "control"}

RequestsOf(req) == {i \in DOMAIN control_requests : control_requests[i].req = req}

\* C3: a run_command call made while the control handle or the seat is not set
\* on the service takes the fallback path, returns at once and issues no request
\* on the control interface; the control interface sees one run_command request
\* per call that took the control path and no other.
C3_FallbackTrigger ==
    /\ [](Cardinality(RequestsOf("run_command")) = Cardinality(ControlCalls))
    /\ [][(Len(cmds') = Len(cmds) + 1 /\ (river_control = None \/ seat = None))
            => /\ cmds'[Len(cmds')].path = "fallback"
               /\ cmds'[Len(cmds')].ret.t # "running"
               /\ mpc' = "idle"
               /\ control_requests' = control_requests]_vars

\* a fallback call made after the worker published the control handle and
\* before it published the seat
C3_Witness ==
    /\ pc = "publish_seat"
    /\ river_control # None
    /\ state.seat # None
    /\ seat = None
    /\ Len(cmds) = 2
    /\ cmds[2].path = "fallback"

\* ready-signal emissions so far
ReadySignals == Len(SelectSeq(emitted, LAMBDA e : e.signal = "ready-signal"))

\* C4: ready is false after construction; it is true only once both roundtrips
\* and the publication of the handles are done and the worker is in its event
\* loop (or has left it); once true it stays true; the ready signal has been
\* emitted once when ready is true and not at all before.
C4_Readiness ==
    /\ ~ready
    /\ [](/\ ready => /\ roundtrips = 2
                      /\ has_display
                      /\ pc \in {"loop", "dispatch", "done"}
          /\ ReadySignals = IF ready THEN 1 ELSE 0)
    /\ [][ready => ready']_vars

\* a ready session in its dispatch loop, the ready signal emitted
C4_Witness ==
    /\ ready
    /\ pc = "dispatch"
    /\ ReadySignals = 1
    /\ idle = <<>>

\* C5: when the first roundtrip ends without a status manager the worker leaves
\* the task: no seat or output status object is requested, there is no second
\* roundtrip, ready is never set.  With a status manager the worker goes on to
\* listener wiring whether or not the control interface was found, and nothing
\* but a missing status manager or an exception ends the task; with the control
\* interface missing, wiring leads to a ready session inside display.dispatch
\* unless the connection fails.
C5_DiscoveryFailure ==
    /\ [](term = "no_status_mgr" =>
            /\ state.river_status_mgr = None
            /\ roundtrips = 1
            /\ state.seat_status = None
            /\ \A n \in DOMAIN info : info[n].status = None
            /\ ~ready
            /\ \A i \in DOMAIN idle : idle[i].fn # "_set_ready")
    /\ [](pc = "done" <=> term \in {"no_status_mgr", "exception"})
    /\ [][(pc = "roundtrip1" /\ pc' # "roundtrip1" /\ term' # "exception")
            => IF state.river_status_mgr = None
               THEN pc' = "done" /\ term' = "no_status_mgr"
               ELSE pc' = "wiring" /\ term' = ""]_vars
    /\ (pc = "wiring" /\ state.river_control = None)
            ~> (term = "exception" \/ (ready /\ pc = "dispatch"))

\* a session without the control interface that is ready and dispatching
C5_Witness ==
    /\ 2 \notin advertised
    /\ river_control = None
    /\ state.seat_status # None
    /\ ready
    /\ pc = "dispatch"

\* a session that ended for want of a status manager, with a seat and no
\* second roundtrip
C5_WitnessFailed ==
    /\ term = "no_status_mgr"
    /\ state.seat # None
    /\ roundtrips = 1

\* C6: a global-removed notification for a tracked output removes its record
\* from the outputs of the session, the worker's and the service's, and queues
\* one output_removed event carrying the id; for any other name it changes
\* nothing and queues nothing.
C6_OutputRemoval ==
    [][\A n \in Names :
            GlobalRemoved(n) =>
                IF n \in state.outputs
                THEN /\ n \notin state'.outputs
                     /\ n \notin outputs'
                     /\ idle' = Append(idle, Deferred("output_removed", None, <<n>>))
                ELSE UNCHANGED <<state, info, outputs, idle, emitted>>]_vars

KnownInterfaces ==
    {"zriver_status_manager_v1", "zriver_control_v1", "wl_output", "wl_seat"}

\* C7: when an output global named n is advertised, the worker's outputs hold
\* exactly one record with id n, with an output handle and empty view, focused
\* and urgent tags; when a global of an interface the service does not know is
\* advertised, nothing of the worker, the service or the UI context changes.
C7_OutputAddition ==
    [][\A n \in Names :
            (n \notin advertised /\ n \in advertised') =>
                IF Globals[n] = "wl_output"
                THEN /\ n \in state'.outputs
                     /\ Cardinality({m \in state'.outputs : info'[m].name = n}) = 1
                     /\ info'[n].name = n
                     /\ info'[n].tags_view = <<>>
                     /\ info'[n].tags_focused = <<>>
                     /\ info'[n].tags_urgent = <<>>
                ELSE Globals[n] \notin KnownInterfaces =>
                        /\ UNCHANGED worker_vars
                        /\ UNCHANGED service_vars
                        /\ UNCHANGED ui_vars]_vars

\* an output added while dispatching and an unknown global advertised
C7_Witness ==
    /\ pc = "dispatch"
    /\ 5 \in state.outputs
    /\ 5 \notin compositor
    /\ 6 \in advertised

WorkerStep ==
    \/ Connect
    \/ Discover
    \/ WireListeners
    \/ InitialFetch
    \/ PublishOutputs
    \/ PublishStatusMgr
    \/ PublishControl
    \/ PublishSeat
    \/ PublishSeatStatus
    \/ PublishDisplay
    \/ MarkReady
    \/ DispatchEnter

UIStep ==
    \/ AttachSuccess
    \/ AttachFailure
    \/ FlushAndReturn
    \/ IdleRun

\* the worker thread and the UI context's main loop keep running
FairSpec == Spec /\ WF_vars(WorkerStep) /\ WF_vars(UIStep)

\* the wire events of one kind delivered for one output, in delivery order
EventsOf(kind, o) == SelectSeq(wire, LAMBDA w : w.ev = kind /\ w.id = o)

\* the tag lists of the domain events of one kind for one output: those
\* emitted, then those still queued for the UI context, in order
DomainEvents(kind, o) ==
    LET sent == SelectSeq(emitted,
                    LAMBDA e : e.signal = "event::" \o kind /\ e.event.output_id = o)
        due == SelectSeq(idle,
                    LAMBDA d : d.fn = "_emit_" \o kind /\ d.id = o)
    IN  [i \in 1..Len(sent) |-> sent[i].event.data]
            \o [i \in 1..Len(due) |-> due[i].data]

StoredTags(kind, o) ==
    IF kind = "view_tags" THEN info[o].tags_view
    ELSE IF kind = "focused_tags" THEN info[o].tags_focused
    ELSE info[o].tags_urgent

BitSet(w, i) ==
    IF i < LimbBits
    THEN (w.lo \div (2 ^ i)) % 2 = 1
    ELSE (w.hi \div (2 ^ (i - LimbBits))) % 2 = 1

\* C9: _decode_bitfields returns the strictly ascending list of exactly the bit
\* positions 0..31 set in at least one input word; a single integer decodes as
\* the one-element sequence holding it; bits above 31 add nothing; an input
\* whose words are all zero decodes to the empty list.
C9_Decode ==
    codec_pc = "return" =>
        LET ws == codec_in.words
            expected == {i \in 0..31 : \E k \in 1..Len(ws) : BitSet(ws[k], i)}
        IN  /\ {codec_out[j] : j \in 1..Len(codec_out)} = expected
            /\ \A j \in 1..(Len(codec_out) - 1) : codec_out[j] < codec_out[j + 1]
            /\ ~codec_in.iter =>
                    codec_out = _decode_bitfields(SeqPayload(<<ws[1]>>))
            /\ (\A k \in 1..Len(ws) : ws[k] = Word(0, 0)) => codec_out = <<>>

\* two words sharing bit 0, one with bit 31 and bit 33, decoded
C9_Witness ==
    /\ codec_pc = "return"
    /\ codec_in = SeqPayload(<<WordOfBits({0, 31, 33}), WordOfBits({0, 1, 3})>>)
    /\ codec_out = <<0, 1, 3, 31>>

\* C10: while ready is false the service's active-window title is the empty
\* string and its outputs mapping is empty.
C10_NonReadyDefaults ==
    ~ready => (active_window_title = "" /\ outputs = {})

\* C11: the step in which a control-path run_command call returns flushes the
\* connection: the display handle is there for the flush at line 333, and the
\* request is out when the call has returned.
C11_FlushBeforeReturn ==
    [][(mpc = "flush" /\ mpc' = "idle")
            => (has_display /\ cmds'[Len(cmds)].flushed)]_vars

\* C12: whatever path a run_command call took, what it returned is a boolean.
C12_ReturnsBool ==
    \A c \in DOMAIN cmds :
        cmds[c].ret.t # "running" => cmds[c].ret.t = "bool"

(***************************************************************************)
(* toggle_focused_tag on its own: sessions in which the application's only *)
(* calls are toggle_focused_tag calls.                                     *)
(***************************************************************************)

\* w divided by ten, and the remainder, limb by limb
DivTen(w) ==
    LET rest == (w.hi % 10) * (2 ^ LimbBits) + w.lo
    IN  [q |-> Word(w.hi \div 10, rest \div 10), r |-> rest % 10]

\* str(n) of a non-negative integer held as a word
RECURSIVE StrOfWord(_)
StrOfWord(w) ==
    IF w.hi = 0 /\ w.lo < 10 THEN Digits[w.lo + 1]
    ELSE StrOfWord(DivTen(w).q) \o Digits[DivTen(w).r + 1]

\* the tag indices toggle_focused_tag is called with
ToggleTags == 0..(TagBits - 1)

\* toggle_focused_tag passing the tag index itself
toggle_focused_tag_RawIndex(tag, callback) ==
    run_command([command |-> "set-focused-tags",
                 args |-> <<StrArg(Decimal(tag))>>], callback)

\* tag_mask = 1 << int(tag); self.run_command("set-focused-tags", str(tag_mask), callback=callback)
toggle_focused_tag(tag, callback) ==
    LET tag_mask == Shl1(tag) IN
    run_command([command |-> "set-focused-tags",
                 args |-> <<StrArg(StrOfWord(tag_mask))>>], callback)

ToggleFocusedTag(tag, callback) ==
    /\ mpc = "idle"
    /\ budget.commands > 0
    /\ budget' = [budget EXCEPT !.commands = @ - 1]
    /\ toggle_focused_tag(tag, callback)
    /\ UNCHANGED worker_vars
    /\ UNCHANGED <<compositor, advertised, wire>>
    /\ UNCHANGED service_vars
    /\ UNCHANGED <<idle, emitted>>
    /\ UNCHANGED codec_vars

\* a compositor with or without the control interface; one call, one outcome event
ToggleInit ==
    /\ compositor \in {{1, 2, 3}, {1, 3}}
    /\ budget = Budget(0, 1, 1, 0)
    /\ Construct
    /\ codec_in = IntPayload(WordOfBits({}))
    /\ codec_out = <<>>
    /\ codec_pc = "off"

NextToggle ==
    \/ Connect
    \/ \E name \in Names : GlobalAdded(name)
    \/ Discover
    \/ WireListeners
    \/ InitialFetch
    \/ PublishOutputs
    \/ PublishStatusMgr
    \/ PublishControl
    \/ PublishSeat
    \/ PublishSeatStatus
    \/ PublishDisplay
    \/ MarkReady
    \/ DispatchEnter
    \/ DispatchReturn
    \/ \E c \in 1..MaxCommands, o \in Outcomes : OutcomeEvent(c, o)
    \/ \E tag \in ToggleTags, callback \in BOOLEAN : ToggleFocusedTag(tag, callback)
    \/ AttachSuccess
    \/ AttachFailure
    \/ FlushAndReturn
    \/ IdleRun

SpecToggle == ToggleInit /\ [][NextToggle]_vars

\* the decimal strings of 1 << t for t = 0..31
Pow2Str ==
    <<"1", "2", "4", "8", "16", "32", "64", "128", "256", "512", "1024",
      "2048", "4096", "8192", "16384", "32768", "65536", "131072", "262144",
      "524288", "1048576", "2097152", "4194304", "8388608", "16777216",
      "33554432", "67108864", "134217728", "268435456", "536870912",
      "1073741824", "2147483648">>

\* C13: a toggle_focused_tag(t, cb) call, t in 0..31, makes exactly one
\* run_command call, named set-focused-tags, whose single argument is the
\* decimal string of 1 << t and whose continuation is cb; on the control path
\* exactly that name and that string go out, followed by one request.
C13_ToggleFocusedTag ==
    [][\A t \in ToggleTags, cb \in BOOLEAN :
            ToggleFocusedTag(t, cb) =>
                LET c == cmds'[Len(cmds')] IN
                /\ Len(cmds') = Len(cmds) + 1
                /\ c.command = "set-focused-tags"
                /\ Len(c.args) = 1
                /\ str(c.args[1]) = Pow2Str[t + 1]
                /\ c.callback = cb
                /\ c.path = "control" =>
                        control_requests' = control_requests \o
                            <<Request("add_argument", "set-focused-tags"),
                              Request("add_argument", Pow2Str[t + 1]),
                              Request("run_command", Decimal(seat))>>]_vars

\* toggle_focused_tag(31, cb) went out on the control interface and its
\* continuation has been called
C13_Witness ==
    /\ Len(cmds) = 1
    /\ cmds[1].path = "control"
    /\ cmds[1].callback
    /\ control_requests =
            <<Request("add_argument", "set-focused-tags"),
              Request("add_argument", "2147483648"),
              Request("run_command", "3")>>
    /\ \E i \in DOMAIN emitted : emitted[i].signal = "callback"

\* a step that delivers a tag event to the worker
TagDelivery == Len(wire') = Len(wire) + 1 /\ wire'[Len(wire')].ev \in TagKinds

\* C14: a tag event of one kind for output o changes, of all records, only the
\* tag list of that kind on o's record; the other two tag lists of o, every
\* other record and the active-window title stay as they were; nothing is
\* emitted by the handler and the one call it queues is the emit of that kind
\* for o.  When the UI context runs that call, only that kind's signals are
\* emitted and no record or title changes.
C14_IndependentStreams ==
    /\ [][TagDelivery =>
            LET w == wire'[Len(wire')]
                o == w.id
            IN  /\ DOMAIN info' = DOMAIN info
                /\ \A n \in DOMAIN info : n # o => info'[n] = info[n]
                /\ o \in DOMAIN info =>
                    /\ info'[o].name = info[o].name
                    /\ info'[o].output = info[o].output
                    /\ info'[o].status = info[o].status
                    /\ w.ev # "view_tags" => info'[o].tags_view = info[o].tags_view
                    /\ w.ev # "focused_tags" => info'[o].tags_focused = info[o].tags_focused
                    /\ w.ev # "urgent_tags" => info'[o].tags_urgent = info[o].tags_urgent
                /\ active_window_title' = active_window_title
                /\ state' = state
                /\ outputs' = outputs
                /\ emitted' = emitted
                /\ Len(idle') = Len(idle) + (IF o \in state.outputs THEN 1 ELSE 0)
                /\ SubSeq(idle', 1, Len(idle)) = idle
                /\ Len(idle') > Len(idle) =>
                    /\ idle'[Len(idle')].fn = "_emit_" \o w.ev
                    /\ idle'[Len(idle')].id = o]_vars
    /\ [][\A k \in TagKinds :
            (idle # <<>> /\ idle' = Tail(idle) /\ Head(idle).fn = "_emit_" \o k) =>
                /\ Len(emitted') = Len(emitted) + 2
                /\ SubSeq(emitted', 1, Len(emitted)) = emitted
                /\ emitted'[Len(emitted) + 1].signal = "event::" \o k
                /\ emitted'[Len(emitted) + 1].event.name = k
                /\ emitted'[Len(emitted) + 2].signal =
                        "event::" \o k \o "::" \o Decimal(Head(idle).id)
                /\ info' = info
                /\ active_window_title' = active_window_title]_vars

\* two outputs and a focused window; a focused_tags event for output 4 was
\* delivered and emitted; nothing else of either record has changed
C14_Witness ==
    /\ {4, 5} \subseteq state.outputs
    /\ active_window_title = "foot"
    /\ info[4].tags_focused # <<>>
    /\ info[4].tags_view = <<>>
    /\ info[4].tags_urgent = <<>>
    /\ info[5].tags_view = <<>>
    /\ info[5].tags_focused = <<>>
    /\ info[5].tags_urgent = <<>>
    /\ \E i \in DOMAIN emitted : emitted[i].signal = "event::focused_tags"

\* the titles of the focused_view events delivered, in delivery order
FocusedTitles ==
    LET evs == SelectSeq(wire, LAMBDA w : w.ev = "focused_view")
    IN  [i \in 1..Len(evs) |-> evs[i].text]

\* the titles of the active_window domain events emitted, in order
ActiveWindowEmitted ==
    LET sent == SelectSeq(emitted, LAMBDA e : e.signal = "event::active_window")
    IN  [i \in 1..Len(sent) |-> sent[i].event.data[1]]

\* the titles of the active_window emits still queued for the UI context
ActiveWindowQueued ==
    LET due == SelectSeq(idle, LAMBDA d : d.fn = "_emit_active_window")
    IN  [i \in 1..Len(due) |-> due[i].data[1]]

\* C15: the step that delivers focused_view(s) stores s as the active-window
\* title and queues one active_window emit carrying s, without a roundtrip and
\* without moving the worker; the active_window events emitted and queued are
\* at all times the delivered titles, one each and in order, the stored title
\* being the last; and every delivered title is eventually emitted.
C15_SeatFocus ==
    /\ [][(Len(wire') = Len(wire) + 1 /\ wire'[Len(wire')].ev = "focused_view") =>
            LET s == wire'[Len(wire')].text IN
            /\ active_window_title' = s
            /\ Len(idle') = Len(idle) + 1
            /\ SubSeq(idle', 1, Len(idle)) = idle
            /\ idle'[Len(idle')].fn = "_emit_active_window"
            /\ idle'[Len(idle')].data = <<s>>
            /\ emitted' = emitted
            /\ roundtrips' = roundtrips
            /\ pc' = pc]_vars
    /\ [](/\ ActiveWindowEmitted \o ActiveWindowQueued = FocusedTitles
          /\ active_window_title =
                IF FocusedTitles = <<>> THEN ""
                ELSE FocusedTitles[Len(FocusedTitles)])
    /\ \A n \in 1..MaxStatusEvents :
            (Len(FocusedTitles) >= n) ~> (Len(ActiveWindowEmitted) >= n)

\* the same title reported twice and then another, all three emitted
C15_Witness ==
    /\ FocusedTitles = <<"foot", "foot", "vim">>
    /\ ActiveWindowEmitted = <<"foot", "foot", "vim">>
    /\ active_window_title = "vim"

\* what the UI context can read from the service: the title, the outputs
\* mapping with its records, and the bound handles
UIReadable ==
    <<active_window_title, river_status_mgr, river_control, seat, seat_status,
      [o \in outputs |-> info[o]]>>

\* C16: every step that changes what the UI context can read from the service
\* is the run of a deferred call in the UI context; no step of the protocol
\* worker changes it.
C16_SingleWriter ==
    [][UIReadable' # UIReadable => (idle # <<>> /\ idle' = Tail(idle))]_vars

\* the worker is past listener wiring and still running
Wired == pc \notin {"start", "roundtrip1", "wiring", "done"}

\* C17: every record in the outputs, the worker's and the service's, has its
\* output handle; before wiring none has a status handle, and once wiring has
\* been done with a status manager bound every record has one, a record added
\* after wiring included.
C17_OutputRecords ==
    \A n \in state.outputs \cup outputs :
        /\ info[n].output # None
        /\ pc \in {"start", "roundtrip1", "wiring"} => info[n].status = None
        /\ Wired => (info[n].status # None <=> state.river_status_mgr # None)

\* C20: once the worker has published its state, the outputs mapping of the
\* service has the same output ids as the worker's own outputs.
C20_OutputsInSync ==
    has_display => outputs = state.outputs

\* the worker is in its event loop
Dispatching == pc \in {"loop", "dispatch"}

ArgText(arg) == IF arg = IntArg(16) THEN "16" ELSE arg.s

\* the requests the control-path calls 1..c should have put on the control
\* interface: per call its name, its arguments in order, one run_command
RECURSIVE ExpectedRequests(_)
ExpectedRequests(c) ==
    IF c = 0 THEN <<>>
    ELSE ExpectedRequests(c - 1) \o
            (IF cmds[c].path # "control" THEN <<>>
             ELSE <<Request("add_argument", cmds[c].command)>>
                    \o [k \in 1..Len(cmds[c].args) |->
                            Request("add_argument", ArgText(cmds[c].args[k]))]
                    \o <<Request("run_command", Decimal(seat))>>)

\* C19: the requests on the control interface are, call after call in call
\* order, the command name, then each argument as a string in the order
\* given, then one run_command request for the seat; every request belongs to
\* exactly one call and nothing of a call shows up in another call's group.
C19_RequestShape ==
    control_requests = ExpectedRequests(Len(cmds))

\* two control-path calls, each with its own three arguments and request
C19_Witness ==
    /\ Len(cmds) = 2
    /\ cmds[1].path = "control"
    /\ cmds[2].path = "control"
    /\ control_requests =
            <<Request("add_argument", "send-layout-cmd"),
              Request("add_argument", "rivertile"),
              Request("add_argument", "16"),
              Request("run_command", "3"),
              Request("add_argument", "send-layout-cmd"),
              Request("add_argument", "rivertile"),
              Request("add_argument", "16"),
              Request("run_command", "3")>>

=============================================================================
